---------------------------- MODULE Spec2Model ----------------------------
(***************************************************************************)
(* A model of apps/aligner/aligner.cpp: the FASTA reader                   *)
(* (readFastaSequences), the paired-line reader (read_input) with the      *)
(* benchmark driver (main), and the alignment renderer (printAlignment).   *)
(* Bytes are their ASCII codes.  Each of the three parts runs under its    *)
(* own specification (SpecFasta, Spec, SpecPrint); the variables of the    *)
(* other two parts then stay at their idle values.                         *)
(***************************************************************************)
EXTENDS Integers, Sequences, FiniteSets

VARIABLES
    \* ---- readFastaSequences ----
    fExists,      \* whether fopen(path) succeeds
    fData,        \* the bytes of the file
    fPos,         \* the stream position (bytes consumed by fread)
    fEof,         \* the stream's end-of-file indicator (feof)
    buffer,       \* char buffer[buffSize], the part fread filled
    read,         \* int read
    bi,           \* the for loop's i
    inHeader,     \* bool inHeader
    inSequence,   \* bool inSequence
    seqs,         \* vector<vector<char>>* seqs
    fRet,         \* the return value (-1: not returned yet)
    fpc,          \* position in readFastaSequences
    \* ---- main and read_input ----
    usageError,          \* optind + 1 != argc || invalidOption
    alignmentFormat,     \* -f
    mode,                \* -m
    findAlignment,       \* -p
    findStartLocations,  \* -l
    kArg,                \* -k
    numRepeats,          \* -r
    modeCode,            \* EdlibAlignMode modeCode
    alignTask,           \* EdlibAlignTask alignTask
    fileExists,          \* whether fopen(queriesFilepath) succeeds
    input,               \* the bytes of the input file
    file,                \* FILE* file: "unset", "NULL" or "open"
    inPos,               \* the stream position of file
    query,               \* char* query: [st, buf]
    target,              \* char* target: [st, buf]
    queryLength,         \* int queryLength
    targetLength,        \* int targetLength
    rep,                 \* the for loop's rep
    liveResults,         \* EdlibAlignResults obtained and not yet freed
    liveBuffers,         \* line buffers allocated and not yet freed
    engineCalls,         \* the requests edlibAlign received, in order
    returned,            \* the pairs read_input returned true with
    readCalls,           \* how often read_input was called
    endOfInput,          \* read_input returned false
    reports,             \* how often "Cpu time of searching" was printed
    exitCode,            \* main's return value (-1: none)
    pc,                  \* position in main
    \* ---- printAlignment ----
    alignment,    \* const unsigned char* alignment, alignmentLength long
    position,     \* const int position
    printMode,    \* const EdlibAlignMode modeCode
    tIdx,         \* int tIdx
    qIdx,         \* int qIdx
    start,        \* the outer for loop's start
    windows,      \* what was printed: one record per window
    ppc           \* position in printAlignment

fastaVars == <<fExists, fData, fPos, fEof, buffer, read, bi, inHeader,
               inSequence, seqs, fRet, fpc>>

mainVars == <<usageError, alignmentFormat, mode, findAlignment,
              findStartLocations, kArg, numRepeats, modeCode, alignTask,
              fileExists, input, file, inPos, query, target, queryLength,
              targetLength, rep, liveResults, liveBuffers, engineCalls,
              returned, readCalls, endOfInput, reports, exitCode, pc>>

printVars == <<alignment, position, printMode, tIdx, qIdx, start, windows,
               ppc>>

Min(a, b) == IF a < b THEN a ELSE b
Max(a, b) == IF a > b THEN a ELSE b

SeqsUpTo(S, n) == UNION {[1..k -> S] : k \in 0..n}

\* '>' , '\n' and '\r'
GT == 62
NL == 10
CR == 13
\* residue bytes used as inputs: 'A' and 'C'
Residues == {65, 67}

(***************************************************************************)
(*                          readFastaSequences                             *)
(***************************************************************************)
buffSize == 4096

\* Longest FASTA input enumerated.
MaxFastaLen == 5

FastaBytes == {GT, NL, CR} \cup Residues

\* What the vector may hold when the function is called.
SeqsBefore == {<< >>, << <<65>> >>}

InitFastaVars ==
    /\ fExists \in BOOLEAN
    /\ fData \in SeqsUpTo(FastaBytes, MaxFastaLen)
    /\ seqs \in SeqsBefore
    /\ fPos = 0
    /\ fEof = FALSE
    /\ buffer = << >>
    /\ read = 0
    /\ bi = 0
    /\ inHeader = FALSE
    /\ inSequence = FALSE
    /\ fRet = -1
    /\ fpc = "start"

IdleFastaVars ==
    /\ fExists = FALSE
    /\ fData = << >>
    /\ seqs = << >>
    /\ fPos = 0
    /\ fEof = FALSE
    /\ buffer = << >>
    /\ read = 0
    /\ bi = 0
    /\ inHeader = FALSE
    /\ inSequence = FALSE
    /\ fRet = -1
    /\ fpc = "idle"

\* seqs->back().push_back(c)
PushBackLast(ss, c) == [ss EXCEPT ![Len(ss)] = Append(@, c)]

\* A slip that forgets to leave the sequence state at a marker.
FastaByteKeepsSequence(c, h, s, ss) ==
    IF h
    THEN [inHeader |-> (c # NL), inSequence |-> s, seqs |-> ss]
    ELSE IF c = GT
    THEN [inHeader |-> TRUE, inSequence |-> s, seqs |-> ss]
    ELSE IF c = CR \/ c = NL
    THEN [inHeader |-> h, inSequence |-> s, seqs |-> ss]
    ELSE [inHeader |-> h, inSequence |-> TRUE,
          seqs |-> PushBackLast(IF s THEN ss ELSE Append(ss, << >>), c)]

\* A slip that skips only '\n' in the body.
FastaByteKeepsCR(c, h, s, ss) ==
    IF h
    THEN [inHeader |-> (c # NL), inSequence |-> s, seqs |-> ss]
    ELSE IF c = GT
    THEN [inHeader |-> TRUE, inSequence |-> FALSE, seqs |-> ss]
    ELSE IF c = NL
    THEN [inHeader |-> h, inSequence |-> s, seqs |-> ss]
    ELSE [inHeader |-> h, inSequence |-> TRUE,
          seqs |-> PushBackLast(IF s THEN ss ELSE Append(ss, << >>), c)]

\* The body of the for loop: one byte c in state (inHeader h, inSequence s,
\* seqs ss).
FastaByte(c, h, s, ss) ==
    IF h
    THEN [inHeader |-> (c # NL), inSequence |-> s, seqs |-> ss]
    ELSE IF c = GT
    THEN [inHeader |-> TRUE, inSequence |-> FALSE, seqs |-> ss]
    ELSE IF c = CR \/ c = NL
    THEN [inHeader |-> h, inSequence |-> s, seqs |-> ss]
    ELSE [inHeader |-> h, inSequence |-> TRUE,
          seqs |-> PushBackLast(IF s THEN ss ELSE Append(ss, << >>), c)]

\* seqs->clear(); fopen; return 1 when it fails.
FastaOpen ==
    /\ fpc = "start"
    /\ seqs' = << >>
    /\ IF fExists
       THEN /\ inHeader' = FALSE
            /\ inSequence' = FALSE
            /\ fpc' = "while"
            /\ UNCHANGED fRet
       ELSE /\ fRet' = 1
            /\ fpc' = "returned"
            /\ UNCHANGED <<inHeader, inSequence>>
    /\ UNCHANGED <<fExists, fData, fPos, fEof, buffer, read, bi>>
    /\ UNCHANGED <<mainVars, printVars>>

\* while(!feof(file)) { read = fread(buffer, 1, buffSize, file); i = 0
\* fread sets the end-of-file indicator when it gets fewer bytes than asked.
FastaFread ==
    /\ fpc = "while"
    /\ ~fEof
    /\ read' = Min(buffSize, Len(fData) - fPos)
    /\ buffer' = SubSeq(fData, fPos + 1, fPos + read')
    /\ fPos' = fPos + read'
    /\ fEof' = (read' < buffSize)
    /\ bi' = 0
    /\ fpc' = "for"
    /\ UNCHANGED <<fExists, fData, inHeader, inSequence, seqs, fRet>>
    /\ UNCHANGED <<mainVars, printVars>>

\* for(i < read): char c = buffer[i]; ...; ++i
FastaChar ==
    /\ fpc = "for"
    /\ bi < read
    /\ LET r == FastaByte(buffer[bi + 1], inHeader, inSequence, seqs)
       IN /\ inHeader' = r.inHeader
          /\ inSequence' = r.inSequence
          /\ seqs' = r.seqs
    /\ bi' = bi + 1
    /\ UNCHANGED <<fExists, fData, fPos, fEof, buffer, read, fRet, fpc>>
    /\ UNCHANGED <<mainVars, printVars>>

\* the for loop ends: back to the while test
FastaChunkDone ==
    /\ fpc = "for"
    /\ bi >= read
    /\ fpc' = "while"
    /\ UNCHANGED <<fExists, fData, fPos, fEof, buffer, read, bi, inHeader,
                   inSequence, seqs, fRet>>
    /\ UNCHANGED <<mainVars, printVars>>

\* feof: fclose(file); return 0
FastaClose ==
    /\ fpc = "while"
    /\ fEof
    /\ fRet' = 0
    /\ fpc' = "returned"
    /\ UNCHANGED <<fExists, fData, fPos, fEof, buffer, read, bi, inHeader,
                   inSequence, seqs>>
    /\ UNCHANGED <<mainVars, printVars>>



(***************************************************************************)
(* The FASTA format, read off the input bytes alone (1-based positions).   *)
(***************************************************************************)
\* Byte i lies inside a header line: a '>' precedes it with no '\n' between.
InHeaderAt(d, i) ==
    \E j \in 1..(i - 1) : d[j] = GT /\ \A m \in (j + 1)..(i - 1) : d[m] # NL

\* Byte i is a marker: a '>' outside a header line.
IsMarker(d, i) == d[i] = GT /\ ~InHeaderAt(d, i)

\* Byte i is a residue: outside header lines, no marker and no line break.
IsResidue(d, i) == ~InHeaderAt(d, i) /\ d[i] \notin {GT, NL, CR}

\* Residue r belongs to the body that starts after boundary b (a marker, or
\* 0 for the start of the stream).
InBodyOf(d, b, r) ==
    r > b /\ IsResidue(d, r) /\ \A m \in (b + 1)..(r - 1) : ~IsMarker(d, m)

Positions(d) == [i \in 1..Len(d) |-> i]

\* The residues of the body after boundary b, in file order.
BodyOf(d, b) ==
    LET rs == SelectSeq(Positions(d), LAMBDA r : InBodyOf(d, b, r))
    IN [k \in 1..Len(rs) |-> d[rs[k]]]

\* The boundaries in file order, and the non-empty bodies they start.
BoundariesOf(d) ==
    SelectSeq([i \in 1..(Len(d) + 1) |-> i - 1],
              LAMBDA b : b = 0 \/ IsMarker(d, b))

BodiesOf(d) ==
    LET bs == BoundariesOf(d)
    IN SelectSeq([k \in 1..Len(bs) |-> BodyOf(d, bs[k])],
                 LAMBDA body : body # << >>)

MarkerBytes(d) == {i \in 1..Len(d) : d[i] = GT}

\* Markers that are followed by a residue before the next marker.
MarkersWithBody(d) ==
    {b \in 1..Len(d) : IsMarker(d, b) /\ \E r \in 1..Len(d) : InBodyOf(d, b, r)}

LeadingBody(d) == \E r \in 1..Len(d) : InBodyOf(d, 0, r)

FastaReturnedOk == fpc = "returned" /\ fRet = 0

\* C1 as stated: the number of records returned by readFastaSequences
\* equals the number of '>' bytes of the input.
C1_RecordsEqualMarkerBytes ==
    FastaReturnedOk => Len(seqs) = Cardinality(MarkerBytes(fData))

\* C1 amended: the number of records returned equals the number of markers
\* ('>' outside a header line) that are followed by at least one residue
\* byte before the next marker or the end of the stream, plus one when a
\* residue byte precedes the first marker.
C1_RecordsEqualNonEmptyBodies ==
    FastaReturnedOk =>
        Len(seqs) = Cardinality(MarkersWithBody(fData))
                    + (IF LeadingBody(fData) THEN 1 ELSE 0)

\* C1 witness: two '>' bytes, the first header without a body, one record.
C1_Witness ==
    /\ FastaReturnedOk
    /\ fData = <<GT, NL, GT, NL, 65>>
    /\ Len(seqs) = 1

\* C2: after readFastaSequences returns, no record holds '\n', '\r' or
\* '>', and the records are, in file order, the concatenations of the
\* residue bytes between one header and the next (or the end of the
\* stream); the last record is whole without a final newline.
C2_RecordsAreBodies ==
    FastaReturnedOk =>
        /\ \A k \in 1..Len(seqs) : \A n \in 1..Len(seqs[k]) :
               seqs[k][n] \notin {NL, CR, GT}
        /\ seqs = BodiesOf(fData)

\* C2 witness: a record spread over two lines, the stream ending without a
\* newline.
C2_Witness ==
    /\ FastaReturnedOk
    /\ fData = <<GT, NL, 65, NL, 67>>
    /\ seqs = << <<65, 67>> >>

(***************************************************************************)
(*                         read_input and main                             *)
(***************************************************************************)
\* Most lines of an input file, and the largest -r, enumerated.
MaxLines == 4
MaxRepeats == 2

\* Lines ">A" and "<CC", and the empty line.
LineBodies == {<<GT, 65>>, <<60, 67, 67>>, << >>}

RECURSIVE TerminatedLines(_)
\* The files of at most n lines, each ended by '\n'.
TerminatedLines(n) ==
    IF n = 0 THEN {<< >>}
    ELSE LET shorter == TerminatedLines(n - 1)
         IN shorter \cup {f \o b \o <<NL>> : f \in shorter, b \in LineBodies}

\* The input files: at most MaxLines lines, the last one with or without
\* its '\n'.
InputFiles ==
    TerminatedLines(MaxLines)
    \cup {f \o b : f \in TerminatedLines(MaxLines - 1),
                   b \in LineBodies \ {<< >>}}

ModeArgs == {"NW", "HW", "SHW", "XX"}
FormatArgs == {"NICE", "XML"}
KArgs == {-1, 1}

\* The command line passes the checks of lines 76-129.
SetupPasses(u, f, m) ==
    /\ ~u
    /\ f \in {"NICE", "CIG_STD", "CIG_EXT"}
    /\ m \in {"SHW", "HW", "NW"}

InitMainVars ==
    /\ usageError \in BOOLEAN
    /\ alignmentFormat \in FormatArgs
    /\ mode \in ModeArgs
    /\ findAlignment \in BOOLEAN
    /\ findStartLocations \in BOOLEAN
    /\ kArg \in KArgs
    /\ numRepeats \in 0..MaxRepeats
    /\ fileExists \in BOOLEAN
    /\ input \in InputFiles
    \* a file that is never opened has no content to enumerate
    /\ (~fileExists \/ ~SetupPasses(usageError, alignmentFormat, mode))
           => input = << >>
    /\ modeCode = "unset"
    /\ alignTask = "unset"
    /\ file = "unset"
    /\ inPos = 0
    /\ query = [st |-> "uninit", buf |-> << >>]
    /\ target = [st |-> "uninit", buf |-> << >>]
    /\ queryLength = 0
    /\ targetLength = 0
    /\ rep = 0
    /\ liveResults = 0
    /\ liveBuffers = 0
    /\ engineCalls = << >>
    /\ returned = << >>
    /\ readCalls = 0
    /\ endOfInput = FALSE
    /\ reports = 0
    /\ exitCode = -1
    /\ pc = "setup"

IdleMainVars ==
    /\ usageError = FALSE
    /\ alignmentFormat = "NICE"
    /\ mode = "NW"
    /\ findAlignment = FALSE
    /\ findStartLocations = FALSE
    /\ kArg = -1
    /\ numRepeats = 1
    /\ fileExists = FALSE
    /\ input = << >>
    /\ modeCode = "unset"
    /\ alignTask = "unset"
    /\ file = "unset"
    /\ inPos = 0
    /\ query = [st |-> "uninit", buf |-> << >>]
    /\ target = [st |-> "uninit", buf |-> << >>]
    /\ queryLength = 0
    /\ targetLength = 0
    /\ rep = 0
    /\ liveResults = 0
    /\ liveBuffers = 0
    /\ engineCalls = << >>
    /\ returned = << >>
    /\ readCalls = 0
    /\ endOfInput = FALSE
    /\ reports = 0
    /\ exitCode = -1
    /\ pc = "idle"

\* getline(3) on the bytes d at position pos: the line up to and including
\* its '\n' (or up to the end of the stream), -1 at the end of the stream.
GetLine(d, pos) ==
    IF pos >= Len(d)
    THEN [len |-> -1, line |-> << >>, pos |-> pos]
    ELSE LET nls == {i \in (pos + 1)..Len(d) : d[i] = NL}
             end == IF nls = {} THEN Len(d)
                    ELSE CHOOSE i \in nls : \A j \in nls : i <= j
         IN [len |-> end - pos, line |-> SubSeq(d, pos + 1, end), pos |-> end]

\* if(findStartLocations) alignTask = LOC; if(findAlignment) alignTask = PATH
TaskOf(p, l) ==
    IF p THEN "EDLIB_TASK_PATH"
    ELSE IF l THEN "EDLIB_TASK_LOC" ELSE "EDLIB_TASK_DISTANCE"

\* Lines 63-134: the usage check, the format check, the mode and the task.
MainSetup ==
    /\ pc = "setup"
    /\ IF usageError
       THEN /\ exitCode' = 1
            /\ pc' = "exit"
            /\ UNCHANGED <<modeCode, alignTask>>
       ELSE IF alignmentFormat \notin {"NICE", "CIG_STD", "CIG_EXT"}
       THEN /\ exitCode' = 1
            /\ pc' = "exit"
            /\ UNCHANGED <<modeCode, alignTask>>
       ELSE IF mode \notin {"SHW", "HW", "NW"}
       THEN /\ exitCode' = 1
            /\ pc' = "exit"
            /\ UNCHANGED <<modeCode, alignTask>>
       ELSE /\ modeCode' = mode
            /\ alignTask' = TaskOf(findAlignment, findStartLocations)
            /\ pc' = "fopen"
            /\ UNCHANGED exitCode
    /\ UNCHANGED <<usageError, alignmentFormat, mode, findAlignment,
                   findStartLocations, kArg, numRepeats, fileExists, input,
                   file, inPos, query, target, queryLength, targetLength, rep,
                   liveResults, liveBuffers, engineCalls, returned, readCalls,
                   endOfInput, reports>>
    /\ UNCHANGED <<fastaVars, printVars>>

\* Lines 138-153: fopen, the banner, clock(), and the first call of
\* read_input; the result of fopen is not tested.
MainOpen ==
    /\ pc = "fopen"
    /\ file' = IF fileExists THEN "open" ELSE "NULL"
    /\ readCalls' = readCalls + 1
    /\ pc' = "getline1"
    /\ UNCHANGED <<usageError, alignmentFormat, mode, findAlignment,
                   findStartLocations, kArg, numRepeats, modeCode, alignTask,
                   fileExists, input, inPos, query, target, queryLength,
                   targetLength, rep, liveResults, liveBuffers, engineCalls,
                   returned, endOfInput, reports, exitCode>>
    /\ UNCHANGED <<fastaVars, printVars>>

\* while(read_input(...)) is false: clock(), the report, return 0.
LoopExit ==
    /\ endOfInput' = TRUE
    /\ reports' = reports + 1
    /\ exitCode' = 0
    /\ pc' = "exit"

\* read_input, line 35: *line1_length = getline(line1, &allocated1, file)
\* with allocated1 = 0 and *line1 the caller's uninitialised or freed
\* pointer; the C library allocates a fresh buffer.
GetLine1 ==
    /\ pc = "getline1"
    /\ file = "open"
    /\ LET g == GetLine(input, inPos)
       IN /\ queryLength' = g.len
          /\ query' = [st |-> "live", buf |-> g.line]
          /\ liveBuffers' = liveBuffers + 1
          /\ inPos' = g.pos
          /\ IF g.len = -1
             THEN LoopExit
             ELSE /\ pc' = "getline2"
                  /\ UNCHANGED <<endOfInput, reports, exitCode>>
    /\ UNCHANGED <<usageError, alignmentFormat, mode, findAlignment,
                   findStartLocations, kArg, numRepeats, modeCode, alignTask,
                   fileExists, input, file, target, targetLength, rep,
                   liveResults, engineCalls, returned, readCalls>>
    /\ UNCHANGED <<fastaVars, printVars>>

\* read_input, line 37, and the loop test of line 153 with the for test of
\* line 156.
GetLine2 ==
    /\ pc = "getline2"
    /\ LET g == GetLine(input, inPos)
       IN /\ targetLength' = g.len
          /\ target' = [st |-> "live", buf |-> g.line]
          /\ liveBuffers' = liveBuffers + 1
          /\ inPos' = g.pos
          /\ IF g.len = -1
             THEN /\ LoopExit
                  /\ UNCHANGED <<returned, rep>>
             ELSE /\ returned' = Append(returned, <<query.buf, g.line>>)
                  /\ rep' = 0
                  /\ pc' = IF 0 < numRepeats THEN "align" ELSE "free_pair"
                  /\ UNCHANGED <<endOfInput, reports, exitCode>>
    /\ UNCHANGED <<usageError, alignmentFormat, mode, findAlignment,
                   findStartLocations, kArg, numRepeats, modeCode, alignTask,
                   fileExists, input, file, query, queryLength, liveResults,
                   engineCalls, readCalls>>
    /\ UNCHANGED <<fastaVars, printVars>>

\* getline on a pointer that is neither NULL nor from malloc (uninitialised
\* at the first call, freed at the later ones), or on a NULL stream, is
\* undefined: a C library that reallocates *lineptr, or locks the stream,
\* ends the process there.
GetLineCrash ==
    /\ \/ pc = "getline1" /\ (file = "NULL" \/ query.st # "live")
       \/ pc = "getline2" /\ target.st # "live"
    /\ pc' = "crashed"
    /\ UNCHANGED <<usageError, alignmentFormat, mode, findAlignment,
                   findStartLocations, kArg, numRepeats, modeCode, alignTask,
                   fileExists, input, file, inPos, query, target, queryLength,
                   targetLength, rep, liveResults, liveBuffers, engineCalls,
                   returned, readCalls, endOfInput, reports, exitCode>>
    /\ UNCHANGED <<fastaVars, printVars>>

\* getline on the NULL stream of a failed fopen, in a C library that
\* rejects it: -1, and read_input returns false.
GetLineNullStream ==
    /\ pc = "getline1"
    /\ file = "NULL"
    /\ queryLength' = -1
    /\ LoopExit
    /\ UNCHANGED <<usageError, alignmentFormat, mode, findAlignment,
                   findStartLocations, kArg, numRepeats, modeCode, alignTask,
                   fileExists, input, file, inPos, query, target,
                   targetLength, rep, liveResults, liveBuffers, engineCalls,
                   returned, readCalls>>
    /\ UNCHANGED <<fastaVars, printVars>>

\* The bytes p + 1 .. p + n of a buffer: the view (p + 1, n - 1) of line 158.
Suffix1(buf, n) == SubSeq(buf, 2, n)

\* Lines 158-159: result = edlibAlign(query + 1, queryLength - 1,
\* target + 1, targetLength - 1, edlibNewAlignConfig(k, modeCode, alignTask))
AlignCall ==
    /\ pc = "align"
    /\ engineCalls' = Append(engineCalls,
           [query |-> Suffix1(query.buf, queryLength),
            queryLength |-> queryLength - 1,
            target |-> Suffix1(target.buf, targetLength),
            targetLength |-> targetLength - 1,
            k |-> kArg, mode |-> modeCode, task |-> alignTask])
    /\ liveResults' = liveResults + 1
    /\ pc' = "free_result"
    /\ UNCHANGED <<usageError, alignmentFormat, mode, findAlignment,
                   findStartLocations, kArg, numRepeats, modeCode, alignTask,
                   fileExists, input, file, inPos, query, target, queryLength,
                   targetLength, rep, liveBuffers, returned, readCalls,
                   endOfInput, reports, exitCode>>
    /\ UNCHANGED <<fastaVars, printVars>>

\* Line 160 and the for loop's rep++ and test.
FreeAlignResult ==
    /\ pc = "free_result"
    /\ liveResults' = liveResults - 1
    /\ rep' = rep + 1
    /\ pc' = IF rep + 1 < numRepeats THEN "align" ELSE "free_pair"
    /\ UNCHANGED <<usageError, alignmentFormat, mode, findAlignment,
                   findStartLocations, kArg, numRepeats, modeCode, alignTask,
                   fileExists, input, file, inPos, query, target, queryLength,
                   targetLength, liveBuffers, engineCalls, returned,
                   readCalls, endOfInput, reports, exitCode>>
    /\ UNCHANGED <<fastaVars, printVars>>

\* A slip that releases the query alone.
FreePairKeepsTarget ==
    /\ pc = "free_pair"
    /\ query' = [query EXCEPT !.st = "freed"]
    /\ liveBuffers' = liveBuffers - 1
    /\ readCalls' = readCalls + 1
    /\ pc' = "getline1"
    /\ UNCHANGED <<usageError, alignmentFormat, mode, findAlignment,
                   findStartLocations, kArg, numRepeats, modeCode, alignTask,
                   fileExists, input, file, inPos, target, queryLength,
                   targetLength, rep, liveResults, engineCalls, returned,
                   endOfInput, reports, exitCode>>
    /\ UNCHANGED <<fastaVars, printVars>>

\* Lines 162-163: free(query); free(target); then read_input is called
\* again.
FreePair ==
    /\ pc = "free_pair"
    /\ query' = [query EXCEPT !.st = "freed"]
    /\ target' = [target EXCEPT !.st = "freed"]
    /\ liveBuffers' = liveBuffers - 2
    /\ readCalls' = readCalls + 1
    /\ pc' = "getline1"
    /\ UNCHANGED <<usageError, alignmentFormat, mode, findAlignment,
                   findStartLocations, kArg, numRepeats, modeCode, alignTask,
                   fileExists, input, file, inPos, queryLength, targetLength,
                   rep, liveResults, engineCalls, returned, endOfInput,
                   reports, exitCode>>
    /\ UNCHANGED <<fastaVars, printVars>>

(***************************************************************************)
(* The paired-line format, read off the input bytes alone.                 *)
(***************************************************************************)
\* Where the lines of d end: at each '\n', and at the end of a stream that
\* does not end with one.
LineEnds(d) ==
    {i \in 1..Len(d) : d[i] = NL \/ i = Len(d)}

LinesOf(d) ==
    LET ends == SelectSeq(Positions(d), LAMBDA i : i \in LineEnds(d))
    IN [k \in 1..Len(ends) |->
           SubSeq(d, (IF k = 1 THEN 0 ELSE ends[k - 1]) + 1, ends[k])]

\* The complete pairs of lines, in input order.
PairsOf(d) ==
    LET ls == LinesOf(d)
    IN [i \in 1..(Len(ls) \div 2) |-> <<ls[2 * i - 1], ls[2 * i]>>]

\* A line without its terminator and without its first (metadata) byte.
Stripped(line) ==
    LET body == IF line # << >> /\ line[Len(line)] = NL
                THEN SubSeq(line, 1, Len(line) - 1) ELSE line
    IN SubSeq(body, 2, Len(body))

Terminated == pc \in {"exit", "crashed"}

\* C3: for an input of N complete line pairs (and possibly one more line),
\* the calls of read_input return exactly the N pairs, in input order, and
\* then report the end of the input; a last line without a partner is never
\* returned.
C3_ExactlyThePairsInOrder ==
    file = "open" =>
        /\ returned = SubSeq(PairsOf(input), 1, Len(returned))
        /\ Terminated => (returned = PairsOf(input) /\ endOfInput)

\* C4: a run that reaches the main loop with -r R >= 1 and P complete pairs
\* invokes the engine R times per pair with the same request, R * P times
\* in all, and prints one timing report, after the last pair.
C4_RepeatsAndOneReport ==
    (file = "open" /\ numRepeats >= 1) =>
        /\ reports <= 1
        /\ reports = 1 => (pc = "exit" /\ returned = PairsOf(input))
        /\ \A n \in 1..Len(engineCalls) :
               engineCalls[n]
                   = engineCalls[((n - 1) \div numRepeats) * numRepeats + 1]
        /\ Terminated =>
               /\ Len(engineCalls) = numRepeats * Len(PairsOf(input))
               /\ reports = 1

\* C5: when the input file cannot be opened the driver fails at once with a
\* non-zero exit code: read_input is never called on the unopened file and
\* the engine is never invoked.
C5_OpenFailureIsFatal ==
    file = "NULL" =>
        /\ readCalls = 0
        /\ engineCalls = << >>
        /\ Terminated => (pc = "exit" /\ exitCode > 0)

\* C6: the query and the target handed to the engine are the pair's two
\* lines without their first byte and without a line terminator.
C6_EngineGetsStrippedLines ==
    \A n \in 1..Len(engineCalls) :
        LET pair == returned[((n - 1) \div numRepeats) + 1]
            call == engineCalls[n]
        IN /\ call.query = Stripped(pair[1])
           /\ call.queryLength = Len(Stripped(pair[1]))
           /\ call.target = Stripped(pair[2])
           /\ call.targetLength = Len(Stripped(pair[2]))
           /\ \A i \in 1..Len(call.query) : call.query[i] # NL
           /\ \A i \in 1..Len(call.target) : call.target[i] # NL

\* C7: every alignment result is released before the next engine
\* invocation and before its iteration ends (at most one is live), and both
\* line buffers of a pair are released before read_input is called for the
\* next pair.
C7_ResultsAndBuffersReleased ==
    /\ liveResults <= 1
    /\ pc # "free_result" => liveResults = 0
    /\ (pc = "getline1" /\ readCalls >= 2) =>
           /\ query.st = "freed"
           /\ target.st = "freed"
           /\ liveBuffers = 0

\* C7 witness: read_input is called for the second pair after two engine
\* invocations on the first.
C7_Witness ==
    /\ pc = "getline1"
    /\ readCalls = 2
    /\ Len(engineCalls) = 2
    /\ Len(returned) = 1

(***************************************************************************)
(*                            printAlignment                               *)
(***************************************************************************)
EDLIB_EDOP_MATCH == "MATCH"
EDLIB_EDOP_INSERT == "INSERT"
EDLIB_EDOP_DELETE == "DELETE"
EDLIB_EDOP_MISMATCH == "MISMATCH"

EdOps == {EDLIB_EDOP_MATCH, EDLIB_EDOP_INSERT, EDLIB_EDOP_DELETE,
          EDLIB_EDOP_MISMATCH}

\* The width of a window.
WindowSize == 50

\* An edit script is enumerated as a run of one operation, none or about
\* one or two windows long, followed by any at most MaxTail operations.
\* The anchor position of an infix alignment is the index of its last
\* target symbol plus 0..MaxSkip, or 0..MaxSkip itself.
MaxTail == 2
MaxSkip == 1

RunLengths == {0, WindowSize - 1, WindowSize, 2 * WindowSize}

Run(op, n) == [i \in 1..n |-> op]

Scripts ==
    {Run(op, n) \o tail :
        op \in EdOps, n \in RunLengths, tail \in SeqsUpTo(EdOps, MaxTail)}

\* The operations of a script that consume a target symbol.
NonInsertOps(al) == {i \in 1..Len(al) : al[i] # EDLIB_EDOP_INSERT}

AnchorPositions(al) ==
    {p \in (0..MaxSkip)
           \cup {Cardinality(NonInsertOps(al)) - 1 + s : s \in 0..MaxSkip} :
        p >= 0}

InitPrintVars ==
    /\ alignment \in Scripts
    /\ printMode \in {"EDLIB_MODE_NW", "EDLIB_MODE_SHW", "EDLIB_MODE_HW"}
    \* position is read in HW mode only
    /\ position \in IF printMode = "EDLIB_MODE_HW"
                    THEN AnchorPositions(alignment) ELSE {0}
    /\ tIdx = -1
    /\ qIdx = -1
    /\ start = 0
    /\ windows = << >>
    /\ ppc = "enter"

IdlePrintVars ==
    /\ alignment = << >>
    /\ position = 0
    /\ printMode = "EDLIB_MODE_NW"
    /\ tIdx = -1
    /\ qIdx = -1
    /\ start = 0
    /\ windows = << >>
    /\ ppc = "idle"

\* What one printf of a line's column shows: "-", or the symbol at index i
\* of the target or of the query.
Gap == <<"-", 0>>
Symbol(of, i) == <<of, i>>

\* The columns of the window at st: j = st .. WindowEnd - 1, from the loop
\* test j < start + 50 && j < alignmentLength.
WindowEnd(al, st) == Min(st + WindowSize, Len(al))

\* A slip that steps back over the operations that consume a query symbol.
HWStepSkipsDeletes(al, i, t) ==
    IF al[i + 1] # EDLIB_EDOP_DELETE THEN t - 1 ELSE t

\* Line 223: if(alignment[i] != EDLIB_EDOP_INSERT) tIdx--
HWStep(al, i, t) == IF al[i + 1] # EDLIB_EDOP_INSERT THEN t - 1 ELSE t

RECURSIVE HWLoop(_, _, _, _)
\* Lines 222-224: the iterations i = lo .. hi - 1 of the loop, in order
\* (the range is split in two, and the first half is evaluated before the
\* second is entered, to keep the evaluation shallow).
HWLoop(al, lo, hi, t) ==
    IF lo >= hi THEN t
    ELSE IF hi = lo + 1 THEN HWStep(al, lo, t)
    ELSE LET mid == (lo + hi) \div 2
             t1 == HWLoop(al, lo, mid, t)
         IN IF t1 = t1 THEN HWLoop(al, mid, hi, t1) ELSE t1

\* A slip that takes the cursor before the window's first column as the
\* start of its range.
TargetStepStartsBefore(al, st, j, r) ==
    LET ins == al[j + 1] = EDLIB_EDOP_INSERT
        t2 == IF ins THEN r.idx ELSE r.idx + 1
    IN [line |-> Append(r.line, IF ins THEN Gap ELSE Symbol("target", t2)),
        idx |-> t2,
        startIdx |-> IF j = st THEN r.idx ELSE r.startIdx]

\* Lines 231-235: column j of the target line; r holds the line so far, the
\* cursor tIdx and startTIdx.
TargetStep(al, st, j, r) ==
    LET ins == al[j + 1] = EDLIB_EDOP_INSERT
        t2 == IF ins THEN r.idx ELSE r.idx + 1
    IN [line |-> Append(r.line, IF ins THEN Gap ELSE Symbol("target", t2)),
        idx |-> t2,
        startIdx |-> IF j = st THEN t2 ELSE r.startIdx]

RECURSIVE TargetLoop(_, _, _, _, _)
\* Lines 230-236: the columns j = lo .. hi - 1 of the target line, in order.
TargetLoop(al, st, lo, hi, r) ==
    IF lo >= hi THEN r
    ELSE IF hi = lo + 1 THEN TargetStep(al, st, lo, r)
    ELSE LET mid == (lo + hi) \div 2
             r1 == TargetLoop(al, st, lo, mid, r)
         IN IF r1 = r1 THEN TargetLoop(al, st, mid, hi, r1) ELSE r1

\* Line 242: "|" for a MATCH, " " for anything else.
Marker(op) == IF op = EDLIB_EDOP_MATCH THEN "|" ELSE " "

\* Lines 241-243: the marker line of the window at st.
MarkerLine(al, st) ==
    [k \in 1..(WindowEnd(al, st) - st) |-> Marker(al[st + k])]

\* Lines 250-254: column j of the query line.
QueryStep(al, st, j, r) ==
    LET del == al[j + 1] = EDLIB_EDOP_DELETE
        q2 == IF del THEN r.idx ELSE r.idx + 1
    IN [line |-> Append(r.line, IF del THEN Gap ELSE Symbol("query", q2)),
        idx |-> q2,
        startIdx |-> IF j = st THEN q2 ELSE r.startIdx]

RECURSIVE QueryLoop(_, _, _, _, _)
\* Lines 249-255: the columns j = lo .. hi - 1 of the query line, in order.
QueryLoop(al, st, lo, hi, r) ==
    IF lo >= hi THEN r
    ELSE IF hi = lo + 1 THEN QueryStep(al, st, lo, r)
    ELSE LET mid == (lo + hi) \div 2
             r1 == QueryLoop(al, st, lo, mid, r)
         IN IF r1 = r1 THEN QueryLoop(al, st, mid, hi, r1) ELSE r1

\* Lines 218-225: the cursors, and the start of an infix alignment.
PrintEnter ==
    /\ ppc = "enter"
    /\ qIdx' = -1
    /\ tIdx' = IF printMode = "EDLIB_MODE_HW"
               THEN HWLoop(alignment, 0, Len(alignment), position)
               ELSE -1
    /\ start' = 0
    /\ ppc' = "loop"
    /\ UNCHANGED <<alignment, position, printMode, windows>>
    /\ UNCHANGED <<fastaVars, mainVars>>

\* Lines 226-257: one window of the outer loop, and start += 50.
PrintWindow ==
    /\ ppc = "loop"
    /\ start < Len(alignment)
    /\ LET end == WindowEnd(alignment, start)
           t == TargetLoop(alignment, start, start, end,
                           [line |-> << >>, idx |-> tIdx, startIdx |-> -1])
           m == MarkerLine(alignment, start)
           q == QueryLoop(alignment, start, start, end,
                          [line |-> << >>, idx |-> qIdx, startIdx |-> qIdx])
       IN /\ windows' = Append(windows,
                 [tLine |-> t.line, tLo |-> Max(t.startIdx, 0), tHi |-> t.idx,
                  markers |-> m,
                  qLine |-> q.line, qLo |-> Max(q.startIdx, 0), qHi |-> q.idx])
          /\ tIdx' = t.idx
          /\ qIdx' = q.idx
    /\ start' = start + WindowSize
    /\ UNCHANGED <<alignment, position, printMode, ppc>>
    /\ UNCHANGED <<fastaVars, mainVars>>

\* The outer loop ends.
PrintReturn ==
    /\ ppc = "loop"
    /\ start >= Len(alignment)
    /\ ppc' = "returned"
    /\ UNCHANGED <<alignment, position, printMode, tIdx, qIdx, start, windows>>
    /\ UNCHANGED <<fastaVars, mainVars>>

(***************************************************************************)
(* What printAlignment printed, read off the printed lines.                *)
(***************************************************************************)
\* The indices of the symbols a printed line shows, in column order.
SymbolIndices(line) ==
    LET cells == SelectSeq(line, LAMBDA c : c # Gap)
    IN [k \in 1..Len(cells) |-> cells[k][2]]

AllMatch(al) == \A i \in 1..Len(al) : al[i] = EDLIB_EDOP_MATCH

\* C8 as stated: in HW mode the computed target start offset is
\* anchorPosition minus the number of non-INSERT operations of the whole
\* script, and no window's printed target range holds a negative
\* coordinate.
C8_HWStartAndNoNegativeCoordinate ==
    printMode = "EDLIB_MODE_HW" =>
        /\ (ppc = "loop" /\ start = 0) =>
               tIdx = position - Cardinality(NonInsertOps(alignment))
        /\ \A k \in 1..Len(windows) :
               windows[k].tLo >= 0 /\ windows[k].tHi >= 0

\* C8 amended: in HW mode the computed target start offset is
\* anchorPosition minus the number of non-INSERT operations of the whole
\* script, and the lower bound of every window's printed target range is
\* never negative (its upper bound is the cursor as it is, which is
\* negative as long as no symbol at a non-negative index was printed).
C8_HWStartAndNoNegativeLowerBound ==
    printMode = "EDLIB_MODE_HW" =>
        /\ (ppc = "loop" /\ start = 0) =>
               tIdx = position - Cardinality(NonInsertOps(alignment))
        /\ \A k \in 1..Len(windows) : windows[k].tLo >= 0

\* C8 witness: an infix alignment of a window of INSERTs and one MATCH
\* that ends at target index 0; its first window prints (0 - -1).
C8_Witness ==
    /\ printMode = "EDLIB_MODE_HW"
    /\ ppc = "returned"
    /\ alignment = Run(EDLIB_EDOP_INSERT, WindowSize) \o <<EDLIB_EDOP_MATCH>>
    /\ position = 0
    /\ windows[1].tLo = 0
    /\ windows[1].tHi = -1
    /\ windows[2].tLo = 0
    /\ windows[2].tHi = 0

\* C9: for a script of L >= 1 MATCH operations, the cursors starting at -1,
\* every window's marker line is all "|", its target and query ranges are
\* equal and its lines show the same indices, window k (from 0) prints
\* (50k, min(50k + 49, L - 1)), and the last window ends at L - 1.
C9_AllMatchWindows ==
    (/\ AllMatch(alignment)
     /\ printMode = "EDLIB_MODE_HW" => position = Len(alignment) - 1) =>
        /\ \A k \in 1..Len(windows) :
               LET w == windows[k]
               IN /\ w.markers # << >>
                  /\ \A i \in 1..Len(w.markers) : w.markers[i] = "|"
                  /\ w.tLo = WindowSize * (k - 1)
                  /\ w.tHi = Min(WindowSize * (k - 1) + WindowSize - 1,
                                 Len(alignment) - 1)
                  /\ w.qLo = w.tLo
                  /\ w.qHi = w.tHi
                  /\ SymbolIndices(w.tLine) = SymbolIndices(w.qLine)
                  /\ k > 1 => w.tLo = windows[k - 1].tHi + 1
        /\ (ppc = "returned" /\ alignment # << >>) =>
               /\ Len(windows) * WindowSize >= Len(alignment)
               /\ windows[Len(windows)].tHi = Len(alignment) - 1

\* C9 witness: 102 MATCH operations printed as three windows.
C9_Witness ==
    /\ AllMatch(alignment)
    /\ Len(alignment) = 2 * WindowSize + 2
    /\ printMode = "EDLIB_MODE_NW"
    /\ ppc = "returned"
    /\ Len(windows) = 3
    /\ windows[3].tLo = 2 * WindowSize
    /\ windows[3].tHi = 2 * WindowSize + 1

\* C10: each window's printed target range is (index of the first target
\* symbol of the window, index of the last), the lower bound clamped to be
\* non-negative, the query range likewise; and a window's lower bound is
\* never an index the previous window covered.
C10_RangesAreFirstAndLastSymbol ==
    \A k \in 1..Len(windows) :
        LET w == windows[k]
            ts == SymbolIndices(w.tLine)
            qs == SymbolIndices(w.qLine)
        IN /\ ts # << >> =>
                  /\ w.tLo = Max(ts[1], 0)
                  /\ w.tHi = ts[Len(ts)]
           /\ qs # << >> =>
                  /\ w.qLo = Max(qs[1], 0)
                  /\ w.qHi = qs[Len(qs)]
           /\ (k > 1 /\ windows[k - 1].tHi >= 0) =>
                  w.tLo > windows[k - 1].tHi
           /\ (k > 1 /\ windows[k - 1].qHi >= 0) =>
                  w.qLo > windows[k - 1].qHi

(***************************************************************************)
(*                          The specifications                             *)
(***************************************************************************)
vars == <<fastaVars, mainVars, printVars>>

\* The driver: main with read_input.
Init == InitMainVars /\ IdleFastaVars /\ IdlePrintVars

Next ==
    \/ MainSetup
    \/ MainOpen
    \/ GetLine1
    \/ GetLine2
    \/ GetLineCrash
    \/ GetLineNullStream
    \/ AlignCall
    \/ FreeAlignResult
    \/ FreePair

Spec == Init /\ [][Next]_vars

\* readFastaSequences.
InitFasta == InitFastaVars /\ IdleMainVars /\ IdlePrintVars

NextFasta == FastaOpen \/ FastaFread \/ FastaChar \/ FastaChunkDone \/ FastaClose

SpecFasta == InitFasta /\ [][NextFasta]_vars

\* printAlignment.
InitPrint == InitPrintVars /\ IdleMainVars /\ IdleFastaVars

NextPrint == PrintEnter \/ PrintWindow \/ PrintReturn

SpecPrint == InitPrint /\ [][NextPrint]_vars

=============================================================================
